---- MODULE Spec2Model ----
(***************************************************************************)
(* State-machine model of the LINE legal-assistant chatbot (src/app.py):   *)
(* MemoryStore, ConversationManager, RateLimiter, APIHandler (tenacity     *)
(* retry), SearchHandler.process_search and LINEBotHandler.handle_message. *)
(*                                                                         *)
(* Strings are sequences of tokens.  Python object identity is kept: the   *)
(* UserSession objects and the message lists live in a heap (objs, lists)  *)
(* and the store's dict holds references; an object nothing refers to any  *)
(* more is freed.  Every statement that touches the shared store is a step *)
(* of its own, so threads interleave as the interpreter lets them; LINE's  *)
(* reply_message / push_message are taken to deliver (the transport is an  *)
(* external collaborator).                                                 *)
(***************************************************************************)
EXTENDS Naturals, Sequences, FiniteSets

\* ------------------------------------------------------------- bounds
MaxEvents == 2
MaxTime == 1801
MaxRateTime == 121
MaxReplyLen == 4

\* ---------------------------------------------------- program constants
SESSION_TIMEOUT == 1800
MAX_REQUESTS_PER_MINUTE == 20
RATE_WINDOW == 60
\* the maximum session history length of the configuration: the program
\* defines none; the value stands for any that is configured
MAX_HISTORY_LENGTH == 3
OPENAI_STOP_AFTER == 3
DIFY_STOP_AFTER == 3

Users == {"u1"}
RateUsers == {"u1"}

SYSTEM_PROMPT == [role |-> "system", content |-> <<"SYSTEM_PROMPT">>]

\* The two special commands of handle_message and an ordinary message.
CMD_NEW == "cmd_new_conversation"
CMD_SEARCHDB == "cmd_search_database"
Texts == {CMD_NEW, CMD_SEARCHDB, "hi"}

\* Fixed texts the bot sends.
RATE_LIMIT_TEXT == <<"rate_limit_notice">>
NEW_CONV_TEXT == <<"new_conversation_started">>
ASK_SEARCH_TEXT == <<"what_to_search">>
ACK_TEXT == <<"search_ack">>
APOLOGY_TEXT == <<"handler_apology">>
PUSH_START_TEXT == <<"search_started">>
PUSH_ANALYZE_TEXT == <<"analyzing">>
PUSH_ORGANIZE_TEXT == <<"organizing">>
FALLBACK_TEXT == <<"search_apology">>
NO_RESULT_TEXT == <<"no_result_found">>
SEARCH_FAILED_PREFIX == <<"search_failed:">>
UNKNOWN_ERROR_TEXT == <<"unknown_error">>
SEARCH_RESULT_PREFIX == <<"[SEARCH_RESULT]", " ">>

\* What the backends may answer.
Contents == { <<"answer">>, <<"see", "[SEARCH]", " ", "q", " ">> }
DifyText(e) == <<"result", e>>
DifyResponses(e) ==
    { [status |-> "succeeded", outputs |-> [text |-> DifyText(e)]] }
\* result["data"] of every shape call_dify reads without a KeyError: a
\* succeeded run with and without an output text, a run that did not
\* succeed with and without an error text.
DifyErrorText == <<"workflow_error">>
EmptyDict == [k \in {} |-> <<>>]
AllDifyResponses(e) ==
    DifyResponses(e) \cup
        { [status |-> "succeeded", outputs |-> EmptyDict],
          [status |-> "failed", error |-> DifyErrorText],
          [status |-> "failed"],
          [status |-> "stopped"] }
\* no response read yet
NoResp == [status |-> "none"]
FinalReplies == { <<"final_answer">> }

\* Time steps that land on, just before and just after the two deadlines.
SessionTicks == {SESSION_TIMEOUT, SESSION_TIMEOUT + 1}
RateTicks == {RATE_WINDOW, RATE_WINDOW + 1}

VARIABLES now, sessions, objs, lists, rate_limits, rl_ret,
          nEvents, ev, pc, loc, out

vars == <<now, sessions, objs, lists, rate_limits, rl_ret,
          nEvents, ev, pc, loc, out>>

\* ------------------------------------------------------------ threads
\* Event e is handled by thread e; the search it may start runs in thread
\* MaxEvents + e; the last thread is the cleanup thread of __main__.
Events == 1..MaxEvents
Handler(e) == e
Searcher(e) == MaxEvents + e
Sweeper == 2 * MaxEvents + 1
Threads == 1..Sweeper
IsHandler(t) == t <= MaxEvents
IsSearcher(t) == t > MaxEvents /\ t < Sweeper
EventOf(t) == IF IsHandler(t) THEN t ELSE t - MaxEvents

NoUser == "nobody"
NoLoc == [user |-> NoUser, expired |-> {}, todo |-> {}, sess |-> 0, psess |-> 0,
          role |-> "", content |-> <<>>, tries |-> <<>>, msgs |-> 0,
          reply |-> <<>>, query |-> <<>>, result |-> <<>>, sent |-> <<>>,
          gsret |-> "", ret |-> "", resp |-> NoResp]

\* ---------------------------------------------------------------- heap
\* References.  0 is no object.  A thread calls get_session at most three
\* times (handle_message once, process_search three times), so the object
\* its k-th call may construct is 3 * (t - 1) + k; the list a new session
\* is constructed with has the object's number, and the list process_search
\* builds in "session.messages = [SYSTEM_PROMPT]" comes after those.
CallsPerThread == 3
ObjIds == 1..(CallsPerThread * 2 * MaxEvents)
ListIds == 1..(CallsPerThread * 2 * MaxEvents + MaxEvents)
NoObj == [messages |-> 0, last_time |-> 0]
NoList == <<>>
CallIndex(t) ==
    IF IsHandler(t) THEN 1
    ELSE IF loc[t].gsret = "s_reset" THEN 1
    ELSE IF loc[t].ret = "s_ai" THEN 2 ELSE 3
NewObjId(t) == CallsPerThread * (t - 1) + CallIndex(t)
ResetListId(t) == CallsPerThread * 2 * MaxEvents + EventOf(t)

\* what is still referred to: by the store, by a thread's locals
ObjLive(o) ==
    \/ \E u \in Users : sessions[u] = o
    \/ \E t \in Threads : loc[t].sess = o \/ loc[t].psess = o
ListLive(l) ==
    \/ \E t \in Threads : loc[t].msgs = l
    \/ \E o \in ObjIds : objs[o].messages = l /\ ObjLive(o)
Garbage ==
    \/ \E o \in ObjIds : objs[o] # NoObj /\ ~ObjLive(o)
    \/ \E l \in ListIds : lists[l] # NoList /\ ~ListLive(l)

\* ------------------------------------------------------- pure helpers
\* x in s, for a token (or entry) x and a sequence s
Contains(s, x) == \E i \in 1..Len(s) : s[i] = x

IsSpace(tok) == tok \in {" ", "\n", "\t"}

RECURSIVE LStrip(_)
LStrip(s) == IF s # <<>> /\ IsSpace(Head(s)) THEN LStrip(Tail(s)) ELSE s

RECURSIVE RStrip(_)
RStrip(s) ==
    IF s # <<>> /\ IsSpace(s[Len(s)]) THEN RStrip(SubSeq(s, 1, Len(s) - 1)) ELSE s

\* str.strip()
Strip(s) == RStrip(LStrip(s))

\* str.split(sep): the pieces between the occurrences of the token sep
RECURSIVE Split(_, _)
Split(s, sep) ==
    IF ~Contains(s, sep) THEN <<s>>
    ELSE LET i == CHOOSE k \in 1..Len(s) :
                      s[k] = sep /\ \A j \in 1..(k - 1) : s[j] # sep
         IN <<SubSeq(s, 1, i - 1)>> \o Split(SubSeq(s, i + 1, Len(s)), sep)

\* reply_text.split("[SEARCH]")[1].strip()
ExtractQuery(reply) == Strip(Split(reply, "[SEARCH]")[2])

\* call_openai: response.choices[0].message.content.strip()
Replies == {Strip(c) : c \in Contents}

\* every content of up to MaxReplyLen tokens, for the directive handling
DirectiveTokens == {"[SEARCH]", " ", "\n", "q", "r"}
AllContents == UNION {[1..n -> DirectiveTokens] : n \in 1..MaxReplyLen}

\* dict.get(key, default)
DictGet(d, key, default) == IF key \in DOMAIN d THEN d[key] ELSE default

\* call_dify's reading of a response that arrived
ParseDify(resp) ==
    IF resp.status = "succeeded"
    THEN DictGet(resp.outputs, "text", NO_RESULT_TEXT)
    ELSE SEARCH_FAILED_PREFIX \o DictGet(resp, "error", UNKNOWN_ERROR_TEXT)

Entry(role, content) == [role |-> role, content |-> content]

\* ------------------------------------------------------- rate limiter
\* a deque without maxlen
DequeAppendUnbounded(d, x) == d \o <<x>>

\* deque(maxlen=MAX_REQUESTS_PER_MINUTE).append: a full deque drops its head
DequeAppend(d, x) ==
    IF Len(d) >= MAX_REQUESTS_PER_MINUTE THEN Tail(d) \o <<x>> ELSE d \o <<x>>

\* the while loop of is_rate_limited: popleft while the head is too old
RECURSIVE PurgeOld(_, _)
PurgeOld(d, t) ==
    IF d # <<>> /\ t - Head(d) > RATE_WINDOW THEN PurgeOld(Tail(d), t) ELSE d

WindowAfter(d, t) == PurgeOld(DequeAppend(d, t), t)

OverLimit(d) == Len(d) > MAX_REQUESTS_PER_MINUTE

Init ==
    /\ now = 0
    /\ sessions = [u \in Users |-> 0]
    /\ objs = [o \in ObjIds |-> NoObj]
    /\ lists = [l \in ListIds |-> NoList]
    /\ rate_limits = [u \in Users |-> <<>>]
    /\ rl_ret = FALSE
    /\ nEvents = 0
    /\ ev = [e \in Events |-> [user |-> NoUser, text |-> ""]]
    /\ pc = [t \in Threads |-> IF t = Sweeper THEN "c_wait" ELSE "idle"]
    /\ loc = [t \in Threads |-> NoLoc]
    /\ out = [e \in Events |-> <<>>]

\* RateLimiter.is_rate_limited(u), called on its own
RateCall(u) ==
    /\ rate_limits' = [rate_limits EXCEPT ![u] = WindowAfter(@, now)]
    /\ rl_ret' = OverLimit(rate_limits'[u])
    /\ UNCHANGED <<now, sessions, objs, lists, nEvents, ev, pc, loc, out>>

RateTick ==
    \E d \in RateTicks :
        /\ now + d <= MaxRateTime
        /\ now' = now + d
        /\ UNCHANGED <<sessions, objs, lists, rate_limits, rl_ret,
                       nEvents, ev, pc, loc, out>>

NextRate == (\E u \in RateUsers : RateCall(u)) \/ RateTick

SpecRate == Init /\ [][NextRate]_vars

\* ------------------------------------------------------------- retry
\* a stop condition that lets one attempt more through
StopAfterAttemptExceeded(attempt, limit) == attempt > limit

\* tenacity's stop_after_attempt(n): stop once the attempt number reaches n
StopAfterAttempt(attempt, limit) == attempt >= limit

\* -------------------------------------------------------- scheduling
\* Every interleaving of the steps below is an interleaving of the program;
\* the ones left out are reorderings of one that is kept:
\*  - a step that reads and writes only its thread's locals and its own
\*    event's outbox (the sends, the backend attempts of handle_message and
\*    of call_dify) commutes with every step of every other thread;
\*  - a scan that finds nothing expired changes nothing, so the membership
\*    test that follows it is taken at the same instant;
\*  - update_session's last_time write and store write follow its append at
\*    once: no other thread reads the two in between to a different effect
\*    than before the append or after the store;
\*  - the attempts of one call_openai of process_search follow its first: the
\*    list is bound by the first, and a later reading of it is a reading made
\*    before the other threads' next steps;
\*  - freeing what nothing refers to comes first.
PriorityPcs == {"h_limited", "h_special", "h_ai", "h_ack", "h_spawn", "h_respond",
                "h_error", "s_start", "s_dify", "s_organize", "s_answered", "s_final",
                "s_error",
                "gs_check", "us_time", "us_store"}
HasPriority(t) ==
    \/ pc[t] \in PriorityPcs
    \/ pc[t] = "s_ai" /\ loc[t].tries # <<>>
PriorityPending == \E t \in Threads : HasPriority(t)
MayRun(t) == ~Garbage /\ (HasPriority(t) \/ ~PriorityPending)
Quiet == ~Garbage /\ ~PriorityPending

\* ----------------------------------------------------- small helpers
\* a thread's locals with the record of its last wrapped call dropped
L(t) == [loc[t] EXCEPT !.tries = <<>>, !.sent = <<>>]

\* where an exception raised inside a thread's try block lands
ErrPc(t) == IF IsHandler(t) THEN "h_error"
            ELSE IF IsSearcher(t) THEN "s_error" ELSE "c_wait"

\* after cleanup_old_sessions returns: with nothing deleted, with deletions
AfterCleanup(t) == IF t = Sweeper THEN "c_wait" ELSE "gs_check"
AfterDeletes(t) == IF t = Sweeper THEN "c_wait" ELSE "gs_check_d"

Msg(via, kind, text) == [via |-> via, kind |-> kind, text |-> text]

Reply(e, kind, text) == [out EXCEPT ![e] = Append(@, Msg("reply", kind, text))]
Push(e, kind, text) == [out EXCEPT ![e] = Append(@, Msg("push", kind, text))]

\* the history a session object currently refers to
History(o) == lists[objs[o].messages]

\* the comparison with the boundary second counted as expired
IsExpiredInclusive(last_time, t) == t - last_time >= SESSION_TIMEOUT

\* time.time() - v.last_time > SESSION_TIMEOUT
IsExpired(last_time, t) == t - last_time > SESSION_TIMEOUT

\* expired_keys of cleanup_old_sessions
ExpiredKeys(t) ==
    {k \in Users : sessions[k] # 0 /\ IsExpired(objs[sessions[k]].last_time, t)}

\* -------------------------------------------------------------- clock
Tick ==
    /\ Quiet
    /\ \E d \in SessionTicks :
        /\ now + d <= MaxTime
        /\ now' = now + d
    /\ UNCHANGED <<sessions, objs, lists, rate_limits, rl_ret,
                   nEvents, ev, pc, loc, out>>

\* the interpreter frees the objects nothing refers to
Collect ==
    /\ Garbage
    /\ objs' = [o \in ObjIds |-> IF ObjLive(o) THEN objs[o] ELSE NoObj]
    /\ lists' = [l \in ListIds |->
          IF \/ \E t \in Threads : loc[t].msgs = l
             \/ \E o \in ObjIds : objs'[o].messages = l
          THEN lists[l] ELSE NoList]
    /\ UNCHANGED <<now, sessions, rate_limits, rl_ret, nEvents, ev, pc, loc, out>>

\* ------------------------------------------- MemoryStore / sessions
\* cleanup_old_sessions: the list comprehension
GsScan(t) ==
    /\ pc[t] = "gs_scan"
    /\ MayRun(t)
    /\ LET ex == ExpiredKeys(now) IN
        /\ loc' = [loc EXCEPT ![t] = [L(t) EXCEPT !.expired = ex, !.todo = ex]]
        /\ pc' = [pc EXCEPT ![t] = IF ex = {} THEN AfterCleanup(t) ELSE "gs_del"]
    /\ UNCHANGED <<now, sessions, objs, lists, rate_limits, rl_ret, nEvents, ev, out>>

\* cleanup_old_sessions: one del self.sessions[k] of the for loop
GsDel(t) ==
    /\ pc[t] = "gs_del"
    /\ MayRun(t)
    /\ \E k \in loc[t].todo :
        /\ sessions[k] # 0
        /\ sessions' = [sessions EXCEPT ![k] = 0]
        /\ loc' = [loc EXCEPT ![t] =
              [L(t) EXCEPT !.todo = @ \ {k}]]
        /\ pc' = [pc EXCEPT ![t] =
                    IF loc[t].todo = {k} THEN AfterDeletes(t) ELSE "gs_del"]
    /\ UNCHANGED <<now, objs, lists, rate_limits, rl_ret, nEvents, ev, out>>

\* cleanup_old_sessions: del of a key another thread deleted first (KeyError)
GsDelKeyError(t) ==
    /\ pc[t] = "gs_del"
    /\ MayRun(t)
    /\ \E k \in loc[t].todo : sessions[k] = 0
    /\ loc' = [loc EXCEPT ![t] = IF t = Sweeper THEN NoLoc
                                 ELSE [NoLoc EXCEPT !.user = loc[t].user]]
    /\ pc' = [pc EXCEPT ![t] = ErrPc(t)]
    /\ UNCHANGED <<now, sessions, objs, lists, rate_limits, rl_ret, nEvents, ev, out>>

\* get_session: the membership test, and the construction of a new session
GsCheck(t) ==
    /\ pc[t] \in {"gs_check", "gs_check_d"}
    /\ MayRun(t)
    /\ LET u == loc[t].user IN
        IF sessions[u] # 0
        THEN /\ loc' = [loc EXCEPT ![t] = [L(t) EXCEPT !.sess = sessions[u]]]
             /\ pc' = [pc EXCEPT ![t] = loc[t].gsret]
             /\ UNCHANGED <<objs, lists>>
        ELSE /\ lists' = [lists EXCEPT ![NewObjId(t)] = <<SYSTEM_PROMPT>>]
             /\ objs' = [objs EXCEPT ![NewObjId(t)] =
                            [messages |-> NewObjId(t), last_time |-> now]]
             /\ loc' = [loc EXCEPT ![t] = [L(t) EXCEPT !.sess = NewObjId(t)]]
             /\ pc' = [pc EXCEPT ![t] = "gs_store"]
    /\ UNCHANGED <<now, sessions, rate_limits, rl_ret, nEvents, ev, out>>

\* get_session: self.store.sessions[user_id] = new_session
GsStore(t) ==
    /\ pc[t] = "gs_store"
    /\ MayRun(t)
    /\ sessions' = [sessions EXCEPT ![loc[t].user] = loc[t].sess]
    /\ pc' = [pc EXCEPT ![t] = loc[t].gsret]
    /\ loc' = [loc EXCEPT ![t] = L(t)]
    /\ UNCHANGED <<now, objs, lists, rate_limits, rl_ret, nEvents, ev, out>>

\* update_session: session.messages.append(...)
UsAppend(t) ==
    /\ pc[t] = "us_append"
    /\ MayRun(t)
    /\ lists' = [lists EXCEPT ![objs[loc[t].sess].messages] =
                    Append(@, Entry(loc[t].role, loc[t].content))]
    /\ pc' = [pc EXCEPT ![t] = "us_time"]
    /\ loc' = [loc EXCEPT ![t] = [L(t) EXCEPT !.expired = {}]]
    /\ UNCHANGED <<now, sessions, objs, rate_limits, rl_ret, nEvents, ev, out>>

\* update_session: session.last_time = time.time()
UsTime(t) ==
    /\ pc[t] = "us_time"
    /\ MayRun(t)
    /\ objs' = [objs EXCEPT ![loc[t].sess].last_time = now]
    /\ pc' = [pc EXCEPT ![t] = "us_store"]
    /\ UNCHANGED <<now, sessions, lists, rate_limits, rl_ret, nEvents, ev, loc, out>>

\* update_session: self.store.sessions[user_id] = session; return session.
\* Of the callers only process_search's first update_session is followed by
\* a use of a session object, and that is its own local (psess).
UsStore(t) ==
    /\ pc[t] = "us_store"
    /\ MayRun(t)
    /\ sessions' = [sessions EXCEPT ![loc[t].user] = loc[t].sess]
    /\ pc' = [pc EXCEPT ![t] = loc[t].ret]
    /\ loc' = [loc EXCEPT ![t] = [L(t) EXCEPT !.role = "", !.content = <<>>,
                                              !.sess = 0, !.ret = "", !.gsret = ""]]
    /\ UNCHANGED <<now, objs, lists, rate_limits, rl_ret, nEvents, ev, out>>

\* the background thread of __main__: every 300 s its cleanup_old_sessions
\* builds expired_keys; with none expired the call returns at once
SweepWake ==
    /\ pc[Sweeper] = "c_wait"
    /\ MayRun(Sweeper)
    /\ LET ex == ExpiredKeys(now) IN
        /\ loc' = [loc EXCEPT ![Sweeper] = [NoLoc EXCEPT !.todo = ex]]
        /\ pc' = [pc EXCEPT ![Sweeper] = IF ex = {} THEN "c_wait" ELSE "gs_del"]
    /\ UNCHANGED <<now, sessions, objs, lists, rate_limits, rl_ret, nEvents, ev, out>>

\* --------------------------------------- LINEBotHandler.handle_message
\* the webhook delivers the next event
Receive(u, text) ==
    /\ nEvents < MaxEvents
    /\ Quiet
    /\ nEvents' = nEvents + 1
    /\ ev' = [ev EXCEPT ![nEvents + 1] = [user |-> u, text |-> text]]
    /\ pc' = [pc EXCEPT ![Handler(nEvents + 1)] = "h_rate"]
    /\ loc' = [loc EXCEPT ![Handler(nEvents + 1)] = [NoLoc EXCEPT !.user = u]]
    /\ UNCHANGED <<now, sessions, objs, lists, rate_limits, rl_ret, out>>

IsSpecialCommand(text) == text \in {CMD_NEW, CMD_SEARCHDB}

\* the rate-limit check and the dispatch on the message text
HRate(t) ==
    /\ pc[t] = "h_rate"
    /\ MayRun(t)
    /\ LET u == loc[t].user
           w == WindowAfter(rate_limits[u], now)
       IN /\ rate_limits' = [rate_limits EXCEPT ![u] = w]
          /\ rl_ret' = OverLimit(w)
          /\ IF OverLimit(w)
             THEN /\ pc' = [pc EXCEPT ![t] = "h_limited"]
                  /\ loc' = loc
             ELSE IF IsSpecialCommand(ev[t].text)
             THEN /\ pc' = [pc EXCEPT ![t] = "h_special"]
                  /\ loc' = loc
             ELSE /\ pc' = [pc EXCEPT ![t] = "gs_scan"]
                  /\ loc' = [loc EXCEPT ![t] =
                        [@ EXCEPT !.role = "user", !.content = <<ev[t].text>>,
                                  !.gsret = "us_append", !.ret = "h_ai"]]
    /\ UNCHANGED <<now, sessions, objs, lists, nEvents, ev, out>>

\* _send_rate_limit_message / _handle_special_command: the text replied
NoticeKind(t) == IF pc[t] = "h_limited" THEN "rate_limit" ELSE "special"
NoticeText(t) ==
    IF pc[t] = "h_limited" THEN RATE_LIMIT_TEXT
    ELSE IF ev[t].text = CMD_NEW THEN NEW_CONV_TEXT ELSE ASK_SEARCH_TEXT

\* return self._send_rate_limit_message(event) /
\* return self._handle_special_command(event, user_message)
HNotice(t) ==
    /\ pc[t] \in {"h_limited", "h_special"}
    /\ MayRun(t)
    /\ out' = Reply(t, NoticeKind(t), NoticeText(t))
    /\ pc' = [pc EXCEPT ![t] = "done"]
    /\ loc' = [loc EXCEPT ![t] = NoLoc]
    /\ UNCHANGED <<now, sessions, objs, lists, rate_limits, rl_ret, nEvents, ev>>

\* _get_ai_response -> call_openai(session.messages): an attempt that
\* answers with one of the given contents; then the test for the directive
HAnswer(t, contents) ==
    /\ pc[t] = "h_ai"
    /\ MayRun(t)
    /\ \E c \in contents :
        LET r == Strip(c) IN
        /\ loc' = [loc EXCEPT ![t] =
              [@ EXCEPT !.tries = Append(@, "ok"), !.reply = r]]
        /\ pc' = [pc EXCEPT ![t] =
              IF Contains(r, "[SEARCH]") THEN "h_ack" ELSE "h_respond"]
    /\ UNCHANGED <<now, sessions, objs, lists, rate_limits, rl_ret, nEvents, ev, out>>

HAttemptOk(t) == HAnswer(t, Contents)
HAttemptAny(t) == HAnswer(t, AllContents)

\* call_openai: an attempt that raises
HAttemptFail(t) ==
    /\ pc[t] = "h_ai"
    /\ MayRun(t)
    /\ loc' = [loc EXCEPT ![t] = [@ EXCEPT !.tries = Append(@, "fail")]]
    /\ pc' = [pc EXCEPT ![t] =
          IF StopAfterAttempt(Len(loc[t].tries) + 1, OPENAI_STOP_AFTER)
          THEN "h_error" ELSE "h_ai"]
    /\ UNCHANGED <<now, sessions, objs, lists, rate_limits, rl_ret, nEvents, ev, out>>

\* _handle_search_request: the query and the synchronous acknowledgment
HAck(t) ==
    /\ pc[t] = "h_ack"
    /\ MayRun(t)
    /\ out' = Reply(t, "ack", ACK_TEXT)
    /\ loc' = [loc EXCEPT ![t] = [L(t) EXCEPT !.query = ExtractQuery(loc[t].reply)]]
    /\ pc' = [pc EXCEPT ![t] = "h_spawn"]
    /\ UNCHANGED <<now, sessions, objs, lists, rate_limits, rl_ret, nEvents, ev>>

\* the thread started and, the return of handle_message's search branch
\* left out, the handler going on to _send_response
HSpawnFallThrough(t) ==
    /\ pc[t] = "h_spawn"
    /\ MayRun(t)
    /\ pc' = [pc EXCEPT ![t] = "h_respond", ![Searcher(t)] = "s_start"]
    /\ loc' = [loc EXCEPT ![Searcher(t)] = [NoLoc EXCEPT !.user = loc[t].user,
                                                         !.query = loc[t].query]]
    /\ UNCHANGED <<now, sessions, objs, lists, rate_limits, rl_ret, nEvents, ev, out>>

\* _handle_search_request: threading.Thread(target=process_search).start()
HSpawn(t) ==
    /\ pc[t] = "h_spawn"
    /\ MayRun(t)
    /\ pc' = [pc EXCEPT ![t] = "done", ![Searcher(t)] = "s_start"]
    /\ loc' = [loc EXCEPT ![t] = NoLoc,
                          ![Searcher(t)] = [NoLoc EXCEPT !.user = loc[t].user,
                                                         !.query = loc[t].query]]
    /\ UNCHANGED <<now, sessions, objs, lists, rate_limits, rl_ret, nEvents, ev, out>>

\* _send_response
HRespond(t) ==
    /\ pc[t] = "h_respond"
    /\ MayRun(t)
    /\ out' = Reply(t, "answer", loc[t].reply)
    /\ pc' = [pc EXCEPT ![t] = "done"]
    /\ loc' = [loc EXCEPT ![t] = NoLoc]
    /\ UNCHANGED <<now, sessions, objs, lists, rate_limits, rl_ret, nEvents, ev>>

\* an except block that logs and lets the exception go on
HErrorReraise(t) ==
    /\ pc[t] = "h_error"
    /\ MayRun(t)
    /\ pc' = [pc EXCEPT ![t] = "done"]
    /\ loc' = [loc EXCEPT ![t] = NoLoc]
    /\ UNCHANGED <<now, sessions, objs, lists, rate_limits, rl_ret, nEvents, ev, out>>

\* except Exception: _send_error_message
HError(t) ==
    /\ pc[t] = "h_error"
    /\ MayRun(t)
    /\ out' = Reply(t, "apology", APOLOGY_TEXT)
    /\ pc' = [pc EXCEPT ![t] = "done"]
    /\ loc' = [loc EXCEPT ![t] = NoLoc]
    /\ UNCHANGED <<now, sessions, objs, lists, rate_limits, rl_ret, nEvents, ev>>

\* --------------------------------------- SearchHandler.process_search
\* the two progress pushes before the search
SStart(t) ==
    /\ pc[t] = "s_start"
    /\ MayRun(t)
    /\ out' = [out EXCEPT ![EventOf(t)] =
                  @ \o <<Msg("push", "progress", PUSH_START_TEXT),
                         Msg("push", "progress", PUSH_ANALYZE_TEXT)>>]
    /\ pc' = [pc EXCEPT ![t] = "s_dify"]
    /\ UNCHANGED <<now, sessions, objs, lists, rate_limits, rl_ret, nEvents, ev, loc>>

\* a call_dify that raises on a status other than succeeded, the attempt
\* counted as failed
SDifyAnswerRaising(t, responses) ==
    /\ pc[t] = "s_dify"
    /\ MayRun(t)
    /\ \E resp \in responses :
        /\ loc' = [loc EXCEPT ![t] =
              IF resp.status = "succeeded"
              THEN [@ EXCEPT !.tries = Append(@, "ok"), !.resp = resp,
                             !.result = ParseDify(resp)]
              ELSE [@ EXCEPT !.tries = Append(@, "fail"), !.resp = resp]]
        /\ pc' = [pc EXCEPT ![t] =
              IF resp.status = "succeeded" THEN "s_organize"
              ELSE IF StopAfterAttempt(Len(loc[t].tries) + 1, DIFY_STOP_AFTER)
                   THEN "s_error" ELSE "s_dify"]
    /\ UNCHANGED <<now, sessions, objs, lists, rate_limits, rl_ret, nEvents, ev, out>>

\* call_dify: an attempt whose request returns; result = response.json()
\* is read and the text for it returned
SDifyAnswer(t, responses) ==
    /\ pc[t] = "s_dify"
    /\ MayRun(t)
    /\ \E resp \in responses :
        loc' = [loc EXCEPT ![t] =
            [@ EXCEPT !.tries = Append(@, "ok"), !.resp = resp,
                      !.result = ParseDify(resp)]]
    /\ pc' = [pc EXCEPT ![t] = "s_organize"]
    /\ UNCHANGED <<now, sessions, objs, lists, rate_limits, rl_ret, nEvents, ev, out>>

\* the backend answering with the result of the search
SDifyOk(t) == SDifyAnswer(t, DifyResponses(EventOf(t)))

\* the backend answering with any response
SDifyAny(t) == SDifyAnswer(t, AllDifyResponses(EventOf(t)))

\* call_dify: an attempt that raises
SDifyFail(t) ==
    /\ pc[t] = "s_dify"
    /\ MayRun(t)
    /\ loc' = [loc EXCEPT ![t] = [@ EXCEPT !.tries = Append(@, "fail")]]
    /\ pc' = [pc EXCEPT ![t] =
          IF StopAfterAttempt(Len(loc[t].tries) + 1, DIFY_STOP_AFTER)
          THEN "s_error" ELSE "s_dify"]
    /\ UNCHANGED <<now, sessions, objs, lists, rate_limits, rl_ret, nEvents, ev, out>>

\* the third progress push, then session = get_session(user_id)
SOrganize(t) ==
    /\ pc[t] = "s_organize"
    /\ MayRun(t)
    /\ out' = Push(EventOf(t), "progress", PUSH_ORGANIZE_TEXT)
    /\ loc' = [loc EXCEPT ![t] = [L(t) EXCEPT !.gsret = "s_reset"]]
    /\ pc' = [pc EXCEPT ![t] = "gs_scan"]
    /\ UNCHANGED <<now, sessions, objs, lists, rate_limits, rl_ret, nEvents, ev>>

\* a reset to the empty list
ResetMessagesEmpty == <<>>

\* the list process_search puts in place of the history: [SYSTEM_PROMPT]
ResetMessages == <<SYSTEM_PROMPT>>

\* session.messages = [SYSTEM_PROMPT], then update_session(.., "system")
SReset(t) ==
    /\ pc[t] = "s_reset"
    /\ MayRun(t)
    /\ lists' = [lists EXCEPT ![ResetListId(t)] = ResetMessages]
    /\ objs' = [objs EXCEPT ![loc[t].sess].messages = ResetListId(t)]
    /\ loc' = [loc EXCEPT ![t] =
          [L(t) EXCEPT !.psess = loc[t].sess, !.sess = 0, !.expired = {},
                       !.role = "system",
                       !.content = SEARCH_RESULT_PREFIX \o loc[t].result,
                       !.gsret = "us_append", !.ret = "s_ai"]]
    /\ pc' = [pc EXCEPT ![t] = "gs_scan"]
    /\ UNCHANGED <<now, sessions, rate_limits, rl_ret, nEvents, ev, out>>

\* the list call_openai works on: bound when the call starts
BoundMsgs(t) ==
    IF loc[t].tries = <<>> THEN objs[loc[t].psess].messages ELSE loc[t].msgs

\* call_openai(session.messages): an attempt that answers
SAttemptOk(t) ==
    /\ pc[t] = "s_ai"
    /\ MayRun(t)
    /\ \E r \in FinalReplies :
        loc' = [loc EXCEPT ![t] =
            [@ EXCEPT !.tries = Append(@, "ok"), !.reply = r,
                      !.msgs = 0, !.psess = 0,
                      !.sent = lists[BoundMsgs(t)]]]
    /\ pc' = [pc EXCEPT ![t] = "s_answered"]
    /\ UNCHANGED <<now, sessions, objs, lists, rate_limits, rl_ret, nEvents, ev, out>>

\* update_session(user_id, reply_text, "assistant"): the call
SAnswered(t) ==
    /\ pc[t] = "s_answered"
    /\ MayRun(t)
    /\ loc' = [loc EXCEPT ![t] =
          [L(t) EXCEPT !.role = "assistant", !.content = loc[t].reply,
                       !.gsret = "us_append", !.ret = "s_final"]]
    /\ pc' = [pc EXCEPT ![t] = "gs_scan"]
    /\ UNCHANGED <<now, sessions, objs, lists, rate_limits, rl_ret, nEvents, ev, out>>

\* call_openai: an attempt that raises
SAttemptFail(t) ==
    /\ pc[t] = "s_ai"
    /\ MayRun(t)
    /\ LET stop == StopAfterAttempt(Len(loc[t].tries) + 1, OPENAI_STOP_AFTER) IN
        /\ loc' = [loc EXCEPT ![t] =
              [@ EXCEPT !.tries = Append(@, "fail"), !.psess = 0,
                        !.msgs = IF stop THEN 0 ELSE BoundMsgs(t)]]
        /\ pc' = [pc EXCEPT ![t] = IF stop THEN "s_error" ELSE "s_ai"]
    /\ UNCHANGED <<now, sessions, objs, lists, rate_limits, rl_ret, nEvents, ev, out>>

\* the final push
SFinal(t) ==
    /\ pc[t] = "s_final"
    /\ MayRun(t)
    /\ out' = Push(EventOf(t), "final", loc[t].reply)
    /\ pc' = [pc EXCEPT ![t] = "s_done"]
    /\ loc' = [loc EXCEPT ![t] = NoLoc]
    /\ UNCHANGED <<now, sessions, objs, lists, rate_limits, rl_ret, nEvents, ev>>

\* an except block that logs and pushes nothing
SErrorLogOnly(t) ==
    /\ pc[t] = "s_error"
    /\ MayRun(t)
    /\ pc' = [pc EXCEPT ![t] = "s_failed"]
    /\ loc' = [loc EXCEPT ![t] = NoLoc]
    /\ UNCHANGED <<now, sessions, objs, lists, rate_limits, rl_ret, nEvents, ev, out>>

\* an except block that starts the search over
SErrorRestart(t) ==
    /\ pc[t] = "s_error"
    /\ MayRun(t)
    /\ pc' = [pc EXCEPT ![t] = "s_dify"]
    /\ loc' = [loc EXCEPT ![t] = [NoLoc EXCEPT !.user = loc[t].user,
                                               !.query = loc[t].query]]
    /\ UNCHANGED <<now, sessions, objs, lists, rate_limits, rl_ret, nEvents, ev, out>>

\* except Exception: the fallback push
SError(t) ==
    /\ pc[t] = "s_error"
    /\ MayRun(t)
    /\ out' = Push(EventOf(t), "fallback", FALLBACK_TEXT)
    /\ pc' = [pc EXCEPT ![t] = "s_failed"]
    /\ loc' = [loc EXCEPT ![t] = NoLoc]
    /\ UNCHANGED <<now, sessions, objs, lists, rate_limits, rl_ret, nEvents, ev>>

\* ------------------------------------------------------ specification
ThreadStep(t) ==
    \/ GsScan(t) \/ GsDel(t) \/ GsDelKeyError(t) \/ GsCheck(t) \/ GsStore(t)
    \/ UsAppend(t) \/ UsTime(t) \/ UsStore(t)
    \/ HRate(t) \/ HNotice(t) \/ HAttemptOk(t) \/ HAttemptFail(t)
    \/ HAck(t) \/ HSpawn(t) \/ HRespond(t) \/ HError(t)
    \/ SStart(t) \/ SDifyOk(t) \/ SDifyFail(t) \/ SOrganize(t) \/ SReset(t)
    \/ SAttemptOk(t) \/ SAttemptFail(t) \/ SAnswered(t) \/ SFinal(t) \/ SError(t)

Next ==
    \/ \E t \in Threads : ThreadStep(t)
    \/ \E u \in Users, text \in Texts : Receive(u, text)
    \/ SweepWake
    \/ Tick
    \/ Collect

Spec == Init /\ [][Next]_vars

\* The runs of Spec in which no two threads are inside get_session /
\* update_session / cleanup_old_sessions at once, and the clock does not move
\* while one is: the store's operations taken one at a time.
InsidePcs == {"gs_del", "gs_check", "gs_check_d", "gs_store",
              "us_append", "us_time", "us_store"}
NoneInside == \A t \in Threads : pc[t] \notin InsidePcs
OnlyInside(t) == \A t2 \in Threads \ {t} : pc[t2] \notin InsidePcs

NextSeq ==
    \/ \E t \in Threads : OnlyInside(t) /\ ThreadStep(t)
    \/ NoneInside /\ \E u \in Users, text \in Texts : Receive(u, text)
    \/ NoneInside /\ SweepWake
    \/ NoneInside /\ Tick
    \/ Collect

SpecSeq == Init /\ [][NextSeq]_vars

\* The interpreter lets every thread that can take a step take one in the
\* end, and frees what is unreferenced; every backend attempt returns or
\* raises (an attempt is one step).
FairnessSeq ==
    /\ \A t \in Threads : WF_vars(OnlyInside(t) /\ ThreadStep(t))
    /\ WF_vars(Collect)
SpecSeqFair == SpecSeq /\ FairnessSeq

\* handle_message for one ordinary message, the backend free to answer with
\* any content of up to MaxReplyLen tokens: the handling of the directive
NextDirective ==
    \/ nEvents = 0 /\ \E u \in Users : Receive(u, "hi")
    \/ \E t \in {Handler(1)} :
          \/ HRate(t) \/ GsScan(t) \/ GsCheck(t) \/ GsStore(t)
          \/ UsAppend(t) \/ UsTime(t) \/ UsStore(t)
          \/ HAttemptAny(t) \/ HAck(t) \/ HSpawn(t) \/ HRespond(t)

SpecDirective == Init /\ [][NextDirective]_vars

\* One message of one user answered with a search directive, the clock
\* still, the Search backend answering with any response or raising.
NextDify ==
    \/ nEvents = 0 /\ \E u \in Users : Receive(u, "hi")
    \/ \E t \in {Handler(1), Searcher(1)} :
          \/ GsScan(t) \/ GsCheck(t) \/ GsStore(t)
          \/ UsAppend(t) \/ UsTime(t) \/ UsStore(t)
          \/ HRate(t) \/ HAttemptOk(t) \/ HAttemptFail(t)
          \/ HAck(t) \/ HSpawn(t) \/ HRespond(t) \/ HError(t)
          \/ SStart(t) \/ SDifyAny(t) \/ SDifyFail(t) \/ SOrganize(t)
          \/ SReset(t) \/ SAttemptOk(t) \/ SAttemptFail(t) \/ SAnswered(t)
          \/ SFinal(t) \/ SError(t)
    \/ Collect

SpecDify == Init /\ [][NextDify]_vars


\* ================================================================ claims
\* the steps of a thread, told by its position before and after
GsReturns(t) ==
    /\ pc[t] \in {"gs_check", "gs_check_d", "gs_store"}
    /\ pc'[t] = loc[t].gsret
Terminal(e) == pc[Handler(e)] = "done"
OthersAtRest(t) ==
    \A t2 \in Threads \ {t} :
        pc[t2] \in {"idle", "done", "s_done", "s_failed", "c_wait"}

\* ------------------------------------------------------------------ C1
\* C1: a call of is_rate_limited for a user is denied exactly when the
\* requests of that user inside the last RATE_WINDOW seconds, this one
\* counted, number more than MAX_REQUESTS_PER_MINUTE: the Nth inside one
\* window is allowed, the (N+1)th is denied, and requests are allowed again
\* once the window has slid past the earlier ones.
C1_DeniedBeyondLimit ==
    [][\A u \in RateUsers :
        (now' = now /\ rate_limits'[u] # rate_limits[u]) =>
            (rl_ret' = (Len(PurgeOld(rate_limits[u], now)) + 1
                            > MAX_REQUESTS_PER_MINUTE))]_vars

\* ------------------------------------------------------------------ C2
\* C2: once the reset command (CMD_NEW) of a user has been handled, with no
\* other thread at work, the next read of that user's session yields a
\* history of the system entry alone: the user has no stored session, or
\* one that the read will expire, or one whose history is <<SYSTEM_PROMPT>>.
C2_ResetLeavesSystemOnly ==
    [][\A e \in Events :
        (/\ ev[e].text = CMD_NEW
         /\ pc[Handler(e)] = "h_special"
         /\ pc'[Handler(e)] = "done"
         /\ OthersAtRest(Handler(e))) =>
            LET u == ev[e].user IN
                \/ sessions'[u] = 0
                \/ now' - objs'[sessions'[u]].last_time > SESSION_TIMEOUT
                \/ lists'[objs'[sessions'[u]].messages] = <<SYSTEM_PROMPT>>]_vars

C4_RetryPolicy ==
    \A t \in Threads :
        LET tries == loc[t].tries IN
        /\ Len(tries) <= 3
        /\ \A i \in 1..(Len(tries) - 1) : tries[i] = "fail"
        /\ (tries = <<"fail", "fail", "ok">>) =>
              \/ pc[t] \in {"h_ack", "h_respond"} /\ loc[t].reply \in Replies
              \/ pc[t] = "s_organize" /\ loc[t].result = DifyText(EventOf(t))
              \/ pc[t] = "s_answered" /\ loc[t].reply \in FinalReplies
        /\ (tries = <<"fail", "fail", "fail">>) => pc[t] \in {"h_error", "s_error"}
        /\ (tries \in {<<"fail">>, <<"fail", "fail">>}) =>
              pc[t] \in {"h_ai", "s_dify", "s_ai"}

\* the second Generation call of a pipeline answered on its third attempt
C4_Witness ==
    \E t \in Threads :
        /\ pc[t] = "s_answered"
        /\ loc[t].tries = <<"fail", "fail", "ok">>

\* ------------------------------------------------------------------ C5
\* C5: for every event the reply channel is used at most once at any time,
\* and exactly once by the time handle_message has returned; that one reply
\* is the event's first message and is the rate-limit notice, the
\* special-command confirmation, the direct answer, the search
\* acknowledgment or the apology; no event gets both an acknowledgment and
\* a direct answer.
RepliesOf(e) == {i \in DOMAIN out[e] : out[e][i].via = "reply"}

C5_ReplyOnce ==
    \A e \in Events :
        /\ Cardinality(RepliesOf(e)) <= 1
        /\ RepliesOf(e) \subseteq {1}
        /\ \A i \in RepliesOf(e) :
              out[e][i].kind \in {"rate_limit", "special", "answer", "ack", "apology"}
        /\ Terminal(e) => Cardinality(RepliesOf(e)) = 1
        /\ pc[Handler(e)] \in {"idle", "h_rate", "h_ai", "h_ack", "h_respond",
                               "h_error", "h_special", "h_limited"} =>
              RepliesOf(e) = {}

\* an event answered by the acknowledgment, its pipeline run to the end
C5_Witness ==
    \E e \in Events :
        /\ Terminal(e)
        /\ pc[Searcher(e)] = "s_done"
        /\ Len(out[e]) = 5
        /\ RepliesOf(e) = {1}
        /\ out[e][1].kind = "ack"

\* ------------------------------------------------------------------ C7
\* C7: a process_search run that has ended has pushed exactly one terminal
\* message, the final answer if it ended normally and the fallback if an
\* exception ended it, as its last message; a run that has not ended has
\* pushed none.
TerminalsOf(e) == {i \in DOMAIN out[e] : out[e][i].kind \in {"final", "fallback"}}

C7_OneTerminalPush ==
    \A e \in Events :
        /\ Cardinality(TerminalsOf(e)) <= 1
        /\ pc[Searcher(e)] = "s_done" =>
              /\ TerminalsOf(e) = {Len(out[e])}
              /\ out[e][Len(out[e])].kind = "final"
        /\ pc[Searcher(e)] = "s_failed" =>
              /\ TerminalsOf(e) = {Len(out[e])}
              /\ out[e][Len(out[e])].kind = "fallback"
        /\ pc[Searcher(e)] \notin {"s_done", "s_failed"} => TerminalsOf(e) = {}

\* a run whose second Generation call gave up, ended by the fallback
C7_Witness ==
    \E e \in Events :
        /\ pc[Searcher(e)] = "s_failed"
        /\ Len(out[e]) = 5
        /\ out[e][5] = Msg("push", "fallback", FALLBACK_TEXT)

\* ------------------------------------------------------------------ C8
\* C8: the history of every session, stored or held by a thread, is never
\* empty and its first entry is the system prompt.
C8_SystemEntryFirst ==
    \A o \in ObjIds :
        objs[o] # NoObj =>
            /\ History(o) # <<>>
            /\ History(o)[1] = SYSTEM_PROMPT

\* a stored history rebuilt by a pipeline and appended to since
C8_Witness ==
    \E u \in Users :
        /\ sessions[u] # 0
        /\ Len(History(sessions[u])) >= 3
        /\ History(sessions[u])[1] = SYSTEM_PROMPT
        /\ History(sessions[u])[2].role = "system"

\* ------------------------------------------------------------------ C6
\* the [SEARCH_RESULT] entries of a history
IsSearchResultEntry(m) ==
    /\ m.role = "system"
    /\ Len(m.content) >= 1
    /\ m.content[1] = "[SEARCH_RESULT]"

\* C6: a pipeline whose backend calls have answered has its second
\* Generation call made on a history that contains a [SEARCH_RESULT] entry,
\* and when it has ended normally the event's messages are, in this order,
\* the synchronous acknowledgment, one or more progress pushes and, last,
\* one final push whose text is the result of that second call.
C6_SearchPathOrder ==
    \A e \in Events :
        /\ pc[Searcher(e)] = "s_answered" =>
              \E i \in DOMAIN loc[Searcher(e)].sent :
                  IsSearchResultEntry(loc[Searcher(e)].sent[i])
        /\ pc[Searcher(e)] = "s_done" =>
              /\ Len(out[e]) >= 3
              /\ out[e][1] = Msg("reply", "ack", ACK_TEXT)
              /\ \A i \in 2..(Len(out[e]) - 1) :
                    out[e][i].via = "push" /\ out[e][i].kind = "progress"
              /\ out[e][Len(out[e])].via = "push"
              /\ out[e][Len(out[e])].kind = "final"
              /\ out[e][Len(out[e])].text \in FinalReplies

\* ------------------------------------------------------------------ C9
\* C9: no session history is ever longer than the configured maximum.
C9_HistoryCapped ==
    \A o \in ObjIds :
        objs[o] # NoObj => Len(History(o)) <= MAX_HISTORY_LENGTH

\* ----------------------------------------------------------------- C10
\* the entry process_search records for the search result of event e
SearchResultEntry(e) == Entry("system", SEARCH_RESULT_PREFIX \o DifyText(e))

\* C10: when a backend call of a pipeline has given up after its third
\* attempt, no stored history holds the pipeline's [SEARCH_RESULT] entry.
C10_FailureLeavesHistory ==
    \A e \in Events :
        (/\ pc[Searcher(e)] = "s_error"
         /\ loc[Searcher(e)].tries = <<"fail", "fail", "fail">>) =>
            \A u \in Users :
                sessions[u] # 0 =>
                    ~Contains(History(sessions[u]), SearchResultEntry(e))


\* ----------------------------------------------------------------- C13
\* the remainder of the line that follows the first directive token, trimmed
AfterToken(s) ==
    LET i == CHOOSE k \in 1..Len(s) :
                 s[k] = "[SEARCH]" /\ \A j \in 1..(k - 1) : s[j] # "[SEARCH]"
    IN SubSeq(s, i + 1, Len(s))
UpToNewline(s) ==
    IF ~Contains(s, "\n") THEN s
    ELSE LET j == CHOOSE k \in 1..Len(s) :
                      s[k] = "\n" /\ \A m \in 1..(k - 1) : s[m] # "\n"
         IN SubSeq(s, 1, j - 1)
LineRemainder(reply) == Strip(UpToNewline(AfterToken(reply)))

\* C13: the query handed to the pipeline for a reply that holds the
\* directive token is the remainder of the token's line, trimmed, whatever
\* follows on later lines or after a later token; a reply without the token
\* goes to the user as the direct answer, with no extraction.
C13_QueryIsLineRemainder ==
    \A e \in Events :
        /\ pc[Handler(e)] = "h_spawn" =>
              loc[Handler(e)].query = LineRemainder(loc[Handler(e)].reply)
        /\ pc[Handler(e)] = "h_respond" =>
              ~Contains(loc[Handler(e)].reply, "[SEARCH]")
        /\ (Terminal(e) /\ out[e][1].kind = "answer") =>
              /\ ~Contains(out[e][1].text, "[SEARCH]")
              /\ pc[Searcher(e)] = "idle"

\* ----------------------------------------------------------------- C17
\* C17: a reply in which nothing but whitespace follows the directive token
\* never takes the search branch: no acknowledgment is sent for it and no
\* pipeline is started.
C17_EmptyDirectiveIsNoDirective ==
    \A e \in Events :
        pc[Handler(e)] \in {"h_ack", "h_spawn"} =>
            Strip(AfterToken(loc[Handler(e)].reply)) # <<>>


\* ----------------------------------------------------------------- C11
\* C11: when the Generation call of handle_message gives up on its third
\* failed attempt, the handler goes to its except block with the store, the
\* sessions and the histories as they were, then replies the apology as the
\* event's only message, again changing no session, starts no pipeline and
\* returns.
C11_ApologyOnGenerationFailure ==
    [][\A e \in Events :
        LET t == Handler(e) IN
        /\ (pc[t] = "h_ai" /\ loc'[t].tries = <<"fail", "fail", "fail">>) =>
              /\ pc'[t] = "h_error"
              /\ pc'[Searcher(e)] = "idle"
              /\ UNCHANGED <<sessions, objs, lists, out>>
        /\ (/\ pc[t] = "h_error"
            /\ loc[t].tries = <<"fail", "fail", "fail">>
            /\ pc'[t] # "h_error") =>
              /\ pc'[t] = "done"
              /\ out'[e] = <<Msg("reply", "apology", APOLOGY_TEXT)>>
              /\ pc'[Searcher(e)] = "idle"
              /\ UNCHANGED <<sessions, objs, lists>>]_vars

\* the call has given up; the user entry is the last of the stored history
C11_Witness ==
    \E e \in Events :
        /\ pc[Handler(e)] = "h_error"
        /\ loc[Handler(e)].tries = <<"fail", "fail", "fail">>
        /\ sessions[ev[e].user] # 0
        /\ LET h == History(sessions[ev[e].user]) IN
              h[Len(h)] = Entry("user", <<ev[e].text>>)

\* ----------------------------------------------------------------- C12
UserEntries(h) == Cardinality({i \in DOMAIN h : h[i].role = "user"})
Handled(u) ==
    {e \in Events : /\ ev[e].user = u
                    /\ ~IsSpecialCommand(ev[e].text)
                    /\ Terminal(e)}

\* C12: while no session can have expired and no pipeline has been started,
\* the stored history of a user holds a user entry for every message of that
\* user whose handle_message has returned: no update_session is lost.
C12_NoLostUpdate ==
    (now = 0 /\ \A e \in Events : pc[Searcher(e)] = "idle") =>
        \A u \in Users :
            Handled(u) # {} =>
                /\ sessions[u] # 0
                /\ UserEntries(History(sessions[u])) >= Cardinality(Handled(u))

\* ----------------------------------------------------------------- C14
\* C14: when handle_message is about to send the reply or the search
\* acknowledgment, no other thread at work, the stored history of the user
\* ends with the user entry followed by the assistant entry of the reply.
C14_AssistantEntryAppended ==
    \A e \in Events :
        (pc[Handler(e)] \in {"h_respond", "h_ack"} /\ OthersAtRest(Handler(e))) =>
            /\ sessions[ev[e].user] # 0
            /\ LET h == History(sessions[ev[e].user]) IN
                  /\ Len(h) >= 3
                  /\ h[Len(h)] = Entry("assistant", loc[Handler(e)].reply)
                  /\ h[Len(h) - 1] = Entry("user", <<ev[e].text>>)

\* ----------------------------------------------------------------- C15
\* C15: the step of process_search between its get_session and the
\* recording of the search result keeps every entry of the session's
\* history: the history before the step is a prefix of the history after.
C15_IntegratingKeepsEntries ==
    [][\A t \in Threads :
        (IsSearcher(t) /\ pc[t] = "s_reset" /\ pc'[t] # "s_reset") =>
            LET h == lists[objs[loc[t].sess].messages]
                h2 == lists'[objs'[loc[t].sess].messages]
            IN /\ Len(h2) >= Len(h)
               /\ SubSeq(h2, 1, Len(h)) = h]_vars

\* ----------------------------------------------------------------- C16
\* C16: the history a pipeline's second Generation call is made on is the
\* history of the session stored for the user at that moment, whenever one
\* is stored.
C16_SentIsStoredHistory ==
    \A e \in Events :
        (/\ pc[Searcher(e)] = "s_answered"
         /\ loc[Searcher(e)].tries = <<"ok">>
         /\ sessions[loc[Searcher(e)].user] # 0) =>
            loc[Searcher(e)].sent = History(sessions[loc[Searcher(e)].user])

\* ----------------------------------------------------------------- C18
\* C18: a session a thread has found in the store and is about to update is
\* not taken out of the store by a step of another thread, and no step of
\* the background thread takes a session out of the store.
C18_NoConcurrentRemoval ==
    [][/\ \A t \in Threads \ {Sweeper} :
            (/\ pc[t] = "us_append"
             /\ sessions[loc[t].user] = loc[t].sess
             /\ pc'[t] = pc[t]) =>
                sessions'[loc[t].user] = loc[t].sess
       /\ (\E u \in Users : sessions[u] # 0 /\ sessions'[u] = 0) =>
            pc[Sweeper] # "gs_del"]_vars


\* ----------------------------------------------------------------- C20
\* C20: the rate window of every user holds at most
\* MAX_REQUESTS_PER_MINUTE timestamps, in the order they were recorded, and
\* none of them is more than RATE_WINDOW seconds older than the last one
\* recorded, the time of the latest call.
C20_WindowBounded ==
    \A u \in RateUsers :
        LET d == rate_limits[u] IN
        /\ Len(d) <= MAX_REQUESTS_PER_MINUTE
        /\ \A i \in 1..Len(d) :
              /\ d[Len(d)] - d[i] <= RATE_WINDOW
              /\ d[i] <= d[Len(d)]
              /\ \A j \in i..Len(d) : d[i] <= d[j]

\* a full window whose oldest timestamp is not the latest call's: an append
\* into the full window has evicted the oldest
C20_Witness ==
    \E u \in RateUsers :
        LET d == rate_limits[u] IN
        /\ Len(d) = MAX_REQUESTS_PER_MINUTE
        /\ d[1] < d[Len(d)]
        /\ d[2] = d[Len(d)]


\* ----------------------------------------------------------------- C19
\* C19: under fair scheduling every process_search run that has started
\* ends, in s_done (the final push made) or in s_failed (the fallback push
\* made); no backend call of a run is attempted more than three times and
\* a run sends no more than its three progress pushes and one terminal
\* push after the acknowledgment; a run that has ended takes no further
\* step and sends nothing more.
C19_PipelineTerminates ==
    /\ \A e \in Events :
          (pc[Searcher(e)] = "s_start") ~>
              (pc[Searcher(e)] \in {"s_done", "s_failed"})
    /\ [][\A e \in Events :
            /\ Len(loc'[Searcher(e)].tries) <= 3
            /\ Len(out'[e]) <= 5
            /\ pc[Searcher(e)] \in {"s_done", "s_failed"} =>
                  /\ pc'[Searcher(e)] = pc[Searcher(e)]
                  /\ out'[e] = out[e]]_vars

\* one run ended by its final push, another by its fallback push
C19_Witness ==
    \E e \in Events :
        /\ pc[Searcher(e)] = "s_done"
        /\ \E e2 \in Events : pc[Searcher(e2)] = "s_failed"


\* ----------------------------------------------------------------- C21
\* the text call_dify is to return for a response: the output text of a
\* succeeded run, the fixed text when it has none, the failure text otherwise
ExpectedSearchText(resp) ==
    IF resp.status = "succeeded"
    THEN (IF "text" \in DOMAIN resp.outputs
          THEN resp.outputs.text ELSE NO_RESULT_TEXT)
    ELSE SEARCH_FAILED_PREFIX \o
            (IF "error" \in DOMAIN resp THEN resp.error ELSE UNKNOWN_ERROR_TEXT)

\* C21: once call_dify has read a response, whatever its status, the call
\* has returned the text for it on that attempt and is not attempted again;
\* the pipeline goes on, and from the recording step on the stored history
\* of the user holds the system entry "[SEARCH_RESULT]" followed by that
\* text; the pipeline reaches its except block only when the Generation
\* call has given up, and sends the fallback only then.
C21_FailureStatusIsAResult ==
    \A e \in Events :
        LET t == Searcher(e)
            r == loc[t].resp
            entry == Entry("system", SEARCH_RESULT_PREFIX \o ExpectedSearchText(r))
        IN r # NoResp =>
            /\ pc[t] # "s_dify"
            /\ loc[t].result = ExpectedSearchText(r)
            /\ pc[t] = "s_organize" =>
                  /\ loc[t].tries # <<>>
                  /\ loc[t].tries[Len(loc[t].tries)] = "ok"
            /\ pc[t] \in {"s_ai", "s_answered", "s_final", "s_error"} =>
                  /\ sessions[loc[t].user] # 0
                  /\ Contains(History(sessions[loc[t].user]), entry)
            /\ pc[t] = "s_error" =>
                  loc[t].tries = <<"fail", "fail", "fail">>
            /\ \A i \in DOMAIN out[e] : out[e][i].kind # "fallback"

\* a run whose search did not succeed is about to send its final push, the
\* failure text recorded in the stored history
C21_Witness ==
    \E e \in Events :
        /\ pc[Searcher(e)] = "s_final"
        /\ loc[Searcher(e)].resp.status # "succeeded"
        /\ loc[Searcher(e)].resp # NoResp
        /\ Contains(History(sessions[ev[e].user]),
                    Entry("system", SEARCH_RESULT_PREFIX \o SEARCH_FAILED_PREFIX
                                        \o UNKNOWN_ERROR_TEXT))

====
